---- MODULE Spec2Model ----
(***************************************************************************)
(* grepros SqliteSink (src/src/grepros/outputs/sqlite.py): the sink that   *)
(* writes messages to an SQLite file, creating type tables and topic views *)
(* on first sight and queueing statements between commits.                 *)
(*                                                                         *)
(* The database file is `store` (what is committed) and `work` (what the   *)
(* open connection sees, uncommitted changes included).  Every handler of  *)
(* the sink is one action; its body is an operator from sink state to sink *)
(* state, written statement by statement after the Python code.  A Python  *)
(* exception is the field exc of the sink state: once it is set, the rest  *)
(* of the handler is skipped, and what was done before it stays done.      *)
(*                                                                         *)
(* Values of database columns are 1-tuples <<v>>, SQL NULL / Python None   *)
(* is <<>>.  Table and view names are <<name>> or <<name, hash>>, the      *)
(* latter standing for the text "name (hash)".  Column names are the field *)
(* paths, <<"header", "id">> standing for "header.id".                     *)
(***************************************************************************)
EXTENDS Integers, Sequences, FiniteSets, TLC

VARIABLES
  store,            \* the database file: committed content
  work,             \* the content as the open connection sees it
  _db,              \* self._db: "None" or "open"
  _nesting,         \* self._nesting
  option_interval,  \* args.DUMP_OPTIONS.get("commit-interval"), <<>> if not given
  COMMIT_INTERVAL,  \* self.COMMIT_INTERVAL
  _topics,          \* {(topic, typehash): topics-row}
  _types,           \* {(typename, typehash): types-row}
  _schema,          \* {(typename, typehash): column layout}
  _checkeds,        \* keys whose existence checks are done
  _sql_queue,       \* <<[sql, rows]>> in order of first use of the template
  _id_counters,     \* {table name: last id handed out}
  last,             \* what the last handler call did (observation only)
  nemits,           \* number of calls of emit so far (bounds the run)
  bag,              \* an McapBag: its fields, its file and what its last call did
  run               \* main.run(): where it is, its locals, the close() calls made

vars == <<store, work, _db, _nesting, option_interval, COMMIT_INTERVAL, _topics,
          _types, _schema, _checkeds, _sql_queue, _id_counters, last, nemits, bag, run>>

----------------------------------------------------------------------------
(* Bounds *)

MaxEmits == 3
MaxArr == 2
MaxStamp == 3

----------------------------------------------------------------------------
(* Helpers *)

NULL == <<>>
V(x) == <<x>>
Range(s) == {s[i] : i \in DOMAIN s}
Max2(a, b) == IF a >= b THEN a ELSE b
Min2(a, b) == IF a <= b THEN a ELSE b
SetMax(S) == CHOOSE x \in S : \A y \in S : y <= x
Coalesce(a, b) == IF a = NULL THEN b ELSE a
Put(f, k, v) == (k :> v) @@ f
IndexOf(s, x) == CHOOSE i \in DOMAIN s : s[i] = x

RECURSIVE SumOver(_, _)
SumOver(f, D) ==
  IF D = {} THEN 0
  ELSE LET d == CHOOSE d \in D : TRUE IN f[d] + SumOver(f, D \ {d})

----------------------------------------------------------------------------
(* Message types and messages: what rosapi and the source report.          *)

TLeaf1 == <<"pkg/Leaf", "h1">>
TLeaf2 == <<"pkg/Leaf", "h2">>
TRoot3 == <<"pkg/Root", "h3">>
TRoot4 == <<"pkg/Root", "h4">>
TTop5 == <<"pkg/Top", "h5">>
\* A type of another name with the definition of pkg/Leaf h1: the hash is a
\* fingerprint of the definition, which does not hold the type's name.
TTwin1 == <<"pkg/Twin", "h1">>

\* Fields of a message type, in definition order.
get_message_fields(typekey) ==
  CASE typekey \in {TLeaf1, TTwin1} -> <<[name |-> "id", kind |-> "scalar", sub |-> <<>>]>>
    [] typekey = TLeaf2 -> <<[name |-> "x", kind |-> "scalar", sub |-> <<>>]>>
    [] typekey = TRoot3 -> <<[name |-> "id", kind |-> "scalar", sub |-> <<>>],
                             [name |-> "header", kind |-> "msg", sub |-> TLeaf1],
                             [name |-> "items", kind |-> "array", sub |-> TLeaf1]>>
    [] typekey = TRoot4 -> <<[name |-> "x", kind |-> "scalar", sub |-> <<>>],
                             [name |-> "header", kind |-> "msg", sub |-> TLeaf2],
                             [name |-> "items", kind |-> "array", sub |-> TLeaf2]>>
    [] typekey = TTop5 -> <<[name |-> "id", kind |-> "scalar", sub |-> <<>>],
                            [name |-> "sub", kind |-> "msg", sub |-> TRoot3]>>

\* A message of the type, every scalar leaf holding v, every array n elements.
RECURSIVE MakeMsg(_, _, _)
MakeMsg(typekey, v, n) ==
  LET fields == get_message_fields(typekey)
      val(f) == CASE f.kind = "scalar" -> v
                  [] f.kind = "msg" -> MakeMsg(f.sub, v, n)
                  [] f.kind = "array" -> [i \in 1..n |-> MakeMsg(f.sub, v, n)]
  IN [type |-> typekey,
      val |-> [k \in {fields[i].name : i \in DOMAIN fields} |->
                 val(fields[IndexOf([i \in DOMAIN fields |-> fields[i].name], k)])]]

\* rosapi.get_message_class(typename)(): the default-constructed message.
get_message_class(typekey) == MakeMsg(typekey, 0, 0)

\* The type name of a field: name, whether "[]" follows, the nested type.
FieldType(f) ==
  [name |-> IF f.kind = "scalar" THEN "int32" ELSE f.sub[1],
   arr |-> f.kind = "array",
   key |-> f.sub]

\* rosapi.scalar: the type without "[]".
scalar(t) == [t EXCEPT !.arr = FALSE]
ROS_BUILTIN(t) == t.key = <<>>

\* rosapi.iter_message_fields: (path, value, typename) of the message's
\* fields; nested messages are walked into, arrays are not.
RECURSIVE iter_message_fields(_, _, _)
iter_message_fields(msg, messages_only, top) ==
  LET fields == get_message_fields(msg.type)
      one(f) ==
        LET v == msg.val[f.name]
            p == Append(top, f.name)
            me == <<[path |-> p, value |-> v, type |-> FieldType(f)]>>
        IN IF messages_only
           THEN (IF f.kind \in {"msg", "array"} THEN me ELSE <<>>)
                \o (IF f.kind = "msg" THEN iter_message_fields(v, TRUE, p) ELSE <<>>)
           ELSE IF f.kind = "msg" THEN iter_message_fields(v, FALSE, p) ELSE me
      F[i \in 0..Len(fields)] == IF i = 0 THEN <<>> ELSE F[i - 1] \o one(fields[i])
  IN F[Len(fields)]

\* rosapi.message_to_dict
message_to_dict(msg) == msg.val

----------------------------------------------------------------------------
(* The SQLite database: tables topics, types and messages of BASE_SCHEMA,  *)
(* the type tables and the topic views.                                    *)

EmptyDB == [topics |-> <<>>, types |-> <<>>, messages |-> <<>>,
            tables |-> <<>>, views |-> <<>>]

Res(D, err, id) == [db |-> D, err |-> err, lastrowid |-> id]

\* An SQL text: the fixed templates differ by op, the generated ones also by
\* table and column list.
Sql(op) == [op |-> op, table |-> <<>>, cols |-> <<>>]
SqlOn(op, table, cols) == [op |-> op, table |-> table, cols |-> cols]

INSERT_MESSAGE == Sql("INSERT_MESSAGE")
INSERT_TOPIC == Sql("INSERT_TOPIC")
UPDATE_TOPIC == Sql("UPDATE_TOPIC")
UPDATE_TOPIC_VIEW == Sql("UPDATE_TOPIC_VIEW")
INSERT_TYPE == Sql("INSERT_TYPE")
UPDATE_TYPE_NESTED == Sql("UPDATE_TYPE_NESTED")

Col(n, t) == [name |-> <<n>>, type |-> <<t>>]
MESSAGE_TYPE_TOPICCOLS == <<Col("_topic", "TEXT"), Col("_topic_id", "BIGINT")>>
MESSAGE_TYPE_BASECOLS ==
  <<Col("_dt", "TIMESTAMP"), Col("_timestamp", "INTEGER"),
    Col("_id", "INTEGER NOT NULL PRIMARY KEY AUTOINCREMENT")>>
MESSAGE_TYPE_NESTCOLS == <<Col("_parent_type", "TEXT"), Col("_parent_id", "INTEGER")>>

ColNames(cols) == [i \in DOMAIN cols |-> cols[i].name]

\* str.startswith("_") of a column name.
StartsWithUnderscore(c) ==
  c[1] \in {"_topic", "_topic_id", "_dt", "_timestamp", "_id", "_parent_type", "_parent_id"}

\* INSERT INTO topics (name, type, md5, table_name): count defaults to 0,
\* the other columns to NULL; id is the AUTOINCREMENT key.
sql_insert_topic(D, a) ==
  LET id == Len(D.topics) + 1
      row == [id |-> id, name |-> a.name, type |-> a.type, md5 |-> a.md5,
              table_name |-> a.table_name, view_name |-> NULL, count |-> 0,
              timestamp_first |-> NULL, timestamp_last |-> NULL]
  IN Res([D EXCEPT !.topics = Append(@, row)], "none", id)

\* UPDATE topics SET count = count + 1, timestamp_first = MIN(COALESCE(..)),
\* timestamp_last = MAX(COALESCE(..)) WHERE name = :name AND type = :type
UpdateTopicRow(r, a) ==
  IF r.name = a.name /\ r.type = a.type
  THEN [r EXCEPT !.count = @ + 1,
                 !.timestamp_first = V(Min2(Coalesce(@, V(a.timestamp))[1], a.timestamp)),
                 !.timestamp_last = V(Max2(Coalesce(@, V(a.timestamp))[1], a.timestamp))]
  ELSE r

sql_update_topic(D, a) ==
  Res([D EXCEPT !.topics = [i \in DOMAIN @ |-> UpdateTopicRow(@[i], a)]], "none", 0)

\* UPDATE topics SET view_name = :view_name WHERE id = :id
sql_update_topic_view(D, a) ==
  Res([D EXCEPT !.topics = [i \in DOMAIN @ |->
         IF @[i].id = a.id THEN [@[i] EXCEPT !.view_name = a.view_name] ELSE @[i]]],
      "none", 0)

\* INSERT INTO types (type, definition, md5, table_name)
sql_insert_type(D, a) ==
  LET id == Len(D.types) + 1
      row == [id |-> id, type |-> a.type, md5 |-> a.md5,
              table_name |-> a.table_name, nested_tables |-> NULL]
  IN Res([D EXCEPT !.types = Append(@, row)], "none", id)

\* UPDATE types SET nested_tables = ? WHERE id = ?
sql_update_type_nested(D, a) ==
  Res([D EXCEPT !.types = [i \in DOMAIN @ |->
         IF @[i].id = a.id THEN [@[i] EXCEPT !.nested_tables = V(a.nested_tables)]
         ELSE @[i]]],
      "none", 0)

\* INSERT INTO messages (topic_id, timestamp, data, topic, type, dt, yaml)
sql_insert_message(D, a) ==
  LET id == Len(D.messages) + 1
      row == [id |-> id, topic_id |-> a.topic_id, timestamp |-> a.timestamp,
              topic |-> a.topic, type |-> a.type]
  IN Res([D EXCEPT !.messages = Append(@, row)], "none", id)

\* INSERT INTO <table> (<cols>) VALUES (?, ..): columns not named get NULL,
\* _id the next AUTOINCREMENT value when it is not given.
sql_insert_row(D, table, cols, args) ==
  IF table \notin DOMAIN D.tables THEN Res(D, "OperationalError", 0)
  ELSE
    LET t == D.tables[table]
        tcols == Range(ColNames(t.cols))
        given(c) == IF c \in Range(cols) THEN args[IndexOf(cols, c)] ELSE NULL
        id == IF given(<<"_id">>) = NULL THEN t.seq + 1 ELSE given(<<"_id">>)[1]
        row == [c \in tcols |-> IF c = <<"_id">> THEN V(id) ELSE given(c)]
    IN IF \E i \in DOMAIN cols : cols[i] \notin tcols
       THEN Res(D, "OperationalError", 0)
       ELSE IF \E i \in DOMAIN t.rows : t.rows[i][<<"_id">>] = V(id)
       THEN Res(D, "IntegrityError", 0)
       ELSE Res([D EXCEPT !.tables[table].rows = Append(@, row),
                          !.tables[table].seq = Max2(@, id)], "none", id)

\* UPDATE <table> SET <cols> = ? WHERE _id = ?: args are the values, then the id.
sql_update_row(D, table, cols, args) ==
  IF table \notin DOMAIN D.tables THEN Res(D, "OperationalError", 0)
  ELSE
    LET t == D.tables[table]
        tcols == Range(ColNames(t.cols))
        id == args[Len(args)]
        upd(r) == [c \in DOMAIN r |->
                     IF c \in Range(cols) THEN args[IndexOf(cols, c)] ELSE r[c]]
    IN IF \E i \in DOMAIN cols : cols[i] \notin tcols
       THEN Res(D, "OperationalError", 0)
       ELSE Res([D EXCEPT !.tables[table].rows = [i \in DOMAIN @ |->
                   IF @[i][<<"_id">>] = id THEN upd(@[i]) ELSE @[i]]], "none", 0)

\* What a statement does to the database content.
Apply(D, sql, args) ==
  CASE sql.op = "INSERT_TOPIC" -> sql_insert_topic(D, args)
    [] sql.op = "UPDATE_TOPIC" -> sql_update_topic(D, args)
    [] sql.op = "UPDATE_TOPIC_VIEW" -> sql_update_topic_view(D, args)
    [] sql.op = "INSERT_TYPE" -> sql_insert_type(D, args)
    [] sql.op = "UPDATE_TYPE_NESTED" -> sql_update_type_nested(D, args)
    [] sql.op = "INSERT_MESSAGE" -> sql_insert_message(D, args)
    [] sql.op = "INSERT" -> sql_insert_row(D, sql.table, sql.cols, args)
    [] sql.op = "UPDATE" -> sql_update_row(D, sql.table, sql.cols, args)

\* DROP TABLE IF EXISTS <name>; CREATE TABLE <name> (<cols>)
sql_create_type_table(D, name, cols) ==
  LET others == [n \in DOMAIN D.tables \ {name} |-> D.tables[n]]
  IN [D EXCEPT !.tables = Put(others, name, [cols |-> cols, rows |-> <<>>, seq |-> 0])]

\* DROP VIEW IF EXISTS <name>
sql_drop_view(D, name) ==
  [D EXCEPT !.views = [n \in DOMAIN @ \ {name} |-> @[n]]]

\* CREATE VIEW <name> AS SELECT <cols> FROM <type> WHERE _topic = <topic>
sql_create_view(D, name, cols, type, topic) ==
  [D EXCEPT !.views = Put(@, name, [cols |-> cols, type |-> type, topic |-> topic])]

\* SELECT COALESCE(MAX(id), 0) AS id FROM <table>: the column is named id.
sql_select_max_id(D, table) ==
  IF table \notin DOMAIN D.tables \/ <<"id">> \notin Range(ColNames(D.tables[table].cols))
  THEN Res(D, "OperationalError", 0)
  ELSE LET rows == D.tables[table].rows
           ids == {rows[i][<<"id">>][1] : i \in {j \in DOMAIN rows : rows[j][<<"id">>] # NULL}}
       IN Res(D, "none", IF ids = {} THEN 0 ELSE SetMax(ids))

\* ALTER TABLE <table> ADD COLUMN .., ADD COLUMN ..: SQLite's grammar takes one
\* ADD COLUMN per statement, and refuses a column the table already has.
sql_alter_add(D, table, missing) ==
  IF Len(missing) # 1 \/ table \notin DOMAIN D.tables
  THEN Res(D, "OperationalError", 0)
  ELSE IF missing[1].name \in Range(ColNames(D.tables[table].cols))
  THEN Res(D, "OperationalError", 0)
  ELSE Res([D EXCEPT !.tables[table].cols = @ \o missing,
                     !.tables[table].rows = [i \in DOMAIN @ |->
                        Put(@[i], missing[1].name, NULL)]], "none", 0)

----------------------------------------------------------------------------
(* The sink.  S is the sink's state while a handler runs: the variables,   *)
(* exc (the exception raised, "none" if none), ret (the value returned by  *)
(* the last call) and ev (what the handler did, for observation).  Each    *)
(* handler is the composition of its statements, a statement being an      *)
(* operator from the state before it to the state after it.                *)

NoEv(op) ==
  [op |-> op, exc |-> "none",
   topic |-> "",          \* emit: the topic
   type |-> <<>>,         \* emit: the message's (typename, typehash)
   items |-> 0,           \* emit: the length of the message's arrays
   stamp |-> 0,           \* emit: the stamp, in nanoseconds
   was_closed |-> FALSE,  \* self._db was None when the handler was called
   init |-> FALSE,        \* _init_db ran
   before |-> 0,          \* rows queued when the handler was called
   enq |-> 0,             \* rows the handler queued
   flushed |-> FALSE,     \* the handler executed the queue and committed
   dropped |-> {},        \* tables that existed when DROP TABLE hit them
   dropped_rows |-> 0,    \* rows those tables held
   created |-> {},        \* tables created
   views |-> {},          \* views created
   altered |-> {},        \* tables altered
   alters |-> {},         \* tables an ALTER TABLE was issued for
   typerows |-> 0,        \* INSERT_TYPE statements executed
   inserts |-> <<>>,      \* type-table inserts issued: table, id, parent
   updates |-> <<>>,      \* type-table updates issued: table, columns, values, id
   ids |-> <<>>,          \* ids handed out by _get_next_id: table, id, and
                          \* held, the largest _id the table held by then
   unlinked |-> {},       \* type tables without linkage columns when opened
   missed |-> 0,          \* type-table updates run that found no row of the id
   discarded |-> FALSE]   \* the connection was closed on uncommitted changes

Ok(S) == S.exc = "none"
Raise(S, e) == [S EXCEPT !.exc = e]

QueueTotal(queue) == SumOver([i \in DOMAIN queue |-> Len(queue[i].rows)], DOMAIN queue)

\* sqlite3.Connection.execute of an INSERT or UPDATE: in a transaction that
\* stays open, unless the connection is in autocommit mode.
Executed(S, r) ==
  IF r.err # "none" THEN Raise(S, r.err)
  ELSE [S EXCEPT !.work = r.db,
                 !.store = IF S.interval = 0 THEN r.db ELSE @,
                 !.ret = r.lastrowid]

\* Whether the statement is an UPDATE of a type table none of whose rows has
\* the _id given, the last of the arguments.
Missed(D, sql, args) ==
  /\ sql.op = "UPDATE"
  /\ sql.table \in DOMAIN D.tables
  /\ \A i \in DOMAIN D.tables[sql.table].rows :
        D.tables[sql.table].rows[i][<<"_id">>] # args[Len(args)]

execute(S, sql, args) ==
  IF ~Ok(S) THEN S
  ELSE Executed([S EXCEPT !.ev.missed = @ + (IF Missed(S.work, sql, args) THEN 1 ELSE 0)],
                Apply(S.work, sql, args))

\* sqlite3.Connection.executemany: row by row, stopping at the first error.
RECURSIVE executemany(_, _, _)
executemany(S, sql, rows) ==
  IF rows = <<>> \/ ~Ok(S) THEN S
  ELSE executemany(execute(S, sql, Head(rows)), sql, Tail(rows))

\* sqlite3.Connection.commit
commit(S) == IF ~Ok(S) THEN S ELSE [S EXCEPT !.store = S.work]

\* sqlite3.Connection.executescript: commits what is pending, then runs the
\* statements, each committed as it ends; D is the content after them.
executescript(S, D) == [S EXCEPT !.work = D, !.store = D]

\* SqliteSink._make_name
Taken(topics, keys) ==
  {topics[k].table_name : k \in keys} \cup {topics[k].view_name : k \in keys}

_make_name(S, category, name, typehash) ==
  IF <<name>> \in Taken(S.topics, {k \in DOMAIN S.topics : S.topics[k].md5 # typehash})
  THEN <<name, typehash>>
  ELSE <<name>>

\* self._sql_queue.setdefault(sql, []).append(args)
Enqueue(queue, sql, args, at) ==
  IF at = {} THEN Append(queue, [sql |-> sql, rows |-> <<args>>])
  ELSE [i \in DOMAIN queue |->
          IF i \in at THEN [queue[i] EXCEPT !.rows = Append(@, args)] ELSE queue[i]]

\* _ensure_execute queueing whatever the commit interval.
_ensure_execute_queued(S, sql, args) ==
  IF ~Ok(S) THEN S
  ELSE [S EXCEPT !.queue = Enqueue(@, sql, args, {i \in DOMAIN @ : @[i].sql = sql}),
                 !.ev.enq = @ + 1]

\* SqliteSink._ensure_execute
_ensure_execute(S, sql, args) ==
  IF ~Ok(S) THEN S
  ELSE IF S.interval # 0
  THEN [S EXCEPT !.queue = Enqueue(@, sql, args, {i \in DOMAIN @ : @[i].sql = sql}),
                 !.ev.enq = @ + 1]
  ELSE execute(S, sql, args)

\* The largest _id of the rows of a table, 0 when it has none.
MaxRowId(D, table) ==
  IF table \notin DOMAIN D.tables THEN 0
  ELSE SetMax({0} \cup {D.tables[table].rows[i][<<"_id">>][1] :
                          i \in DOMAIN D.tables[table].rows})

\* SqliteSink._get_next_id: ret is the id.
NextIdFrom(S, table, base) ==
  [S EXCEPT !.counters = Put(@, table, base + 1),
            !.ret = base + 1,
            !.ev.ids = Append(@, [table |-> table, id |-> base + 1,
                                  held |-> MaxRowId(S.work, table)])]

SeedId(S, table, r) ==
  IF r.err # "none" THEN Raise(S, r.err) ELSE NextIdFrom(S, table, r.lastrowid)

_get_next_id(S, table) ==
  IF ~Ok(S) THEN S
  ELSE IF table \in DOMAIN S.counters /\ S.counters[table] # 0
  THEN NextIdFrom(S, table, S.counters[table])
  ELSE SeedId(S, table, sql_select_max_id(S.work, table))

\* The declared type of a field's column: rosapi.scalar(subtype) + suffix.
ColType(f) == IF f.type.arr THEN <<f.type.name, "[]">> ELSE <<f.type.name>>

\* Connection.executescript(CREATE_TYPE_TABLE % ..)
create_type_table(S, name, cols) ==
  [executescript(S, sql_create_type_table(S.work, name, cols))
     EXCEPT !.ev.created = @ \cup {name},
            !.ev.dropped = IF name \in DOMAIN S.work.tables THEN @ \cup {name} ELSE @,
            !.ev.dropped_rows = IF name \in DOMAIN S.work.tables
                                THEN @ + Len(S.work.tables[name].rows) ELSE @]

RECURSIVE _process_type(_, _)
RECURSIVE process_nesteds(_, _, _)

\* _process_type, lines 320-328: the types row.
TypeInserted(S, typekey, table_name) ==
  IF ~Ok(S) THEN S
  ELSE [S EXCEPT !.types = Put(@, typekey,
                     [type |-> typekey[1], md5 |-> typekey[2],
                      table_name |-> table_name, id |-> S.ret,
                      nested_tables |-> [kind |-> "none", map |-> <<>>]]),
                 !.ev.typerows = @ + 1]

InsertType(S, typekey, table_name) ==
  TypeInserted(execute(S, INSERT_TYPE, [type |-> typekey[1], md5 |-> typekey[2],
                                        table_name |-> table_name]),
               typekey, table_name)

process_type_row(S, msg) ==
  IF ~Ok(S) \/ msg.type \in DOMAIN S.types THEN S
  ELSE InsertType(S, msg.type, _make_name(S, "table", msg.type[1], msg.type[2]))

\* _process_type, lines 330-341: the type table.
FieldCols(fields) ==
  [i \in DOMAIN fields |-> [name |-> fields[i].path, type |-> ColType(fields[i])]]

\* The columns without the test of self._nesting at line 337.
TypeCols_unlinked(msg, nesting) ==
  FieldCols(iter_message_fields(msg, FALSE, <<>>))
  \o MESSAGE_TYPE_TOPICCOLS \o MESSAGE_TYPE_BASECOLS

TypeCols(msg, nesting) ==
  FieldCols(iter_message_fields(msg, FALSE, <<>>))
  \o MESSAGE_TYPE_TOPICCOLS \o MESSAGE_TYPE_BASECOLS
  \o (IF nesting # "" THEN MESSAGE_TYPE_NESTCOLS ELSE <<>>)

\* The layout assigned as the whole of self._schema.
TableCreated_only(S, typekey, cols) ==
  [create_type_table(S, S.types[typekey].table_name, cols)
     EXCEPT !.schema = Put(<<>>, typekey, cols)]

TableCreated(S, typekey, cols) ==
  [create_type_table(S, S.types[typekey].table_name, cols)
     EXCEPT !.schema = Put(@, typekey, cols)]

process_type_table(S, msg) ==
  IF ~Ok(S) \/ msg.type \in DOMAIN S.schema THEN S
  ELSE TableCreated(S, msg.type, TypeCols(msg, S.nesting))

\* _process_type, lines 343-353: the loop over the nested fields; the result
\* is the sink state and the nested_tables built so far.  Assigning into the
\* nested_tables read back from the database, a JSON text, is a TypeError.
NestedFirst(f) ==
  IF ~f.type.arr THEN f.value
  ELSE IF f.value # <<>> THEN f.value[1]
  ELSE get_message_class(f.type.key)

process_nesteds(S, nesteds, nested_tables) ==
  IF nesteds = <<>> \/ ~Ok(S) THEN [s |-> S, nested_tables |-> nested_tables]
  ELSE IF ~Head(nesteds).type.arr /\ S.nesting # "all"
  THEN process_nesteds(S, Tail(nesteds), nested_tables)
  ELSE IF nested_tables.kind = "str"
  THEN [s |-> Raise(S, "TypeError"), nested_tables |-> nested_tables]
  ELSE process_nesteds(
         _process_type(S, NestedFirst(Head(nesteds))),
         Tail(nesteds),
         [kind |-> "dict",
          map |-> Put(nested_tables.map, Head(nesteds).path,
                      _make_name(S, "table", scalar(Head(nesteds).type).name,
                                 Head(nesteds).type.key[2]))])

\* self._types[typekey].get("nested_tables") or {}
NestedStart(stored) ==
  IF stored.kind = "none" \/ stored.map = <<>> THEN [kind |-> "dict", map |-> <<>>]
  ELSE stored

\* _process_type, lines 354-357
NestedStored(S, typekey, nested_tables) ==
  IF ~Ok(S) THEN S ELSE [S EXCEPT !.types[typekey].nested_tables = nested_tables]

NestedDone(L, typekey) ==
  IF ~Ok(L.s) \/ L.nested_tables.map = <<>> THEN L.s
  ELSE NestedStored(execute(L.s, UPDATE_TYPE_NESTED,
                            [nested_tables |-> L.nested_tables.map,
                             id |-> L.s.types[typekey].id]),
                    typekey, L.nested_tables)

process_type_nested(S, msg) ==
  IF ~Ok(S) THEN S
  ELSE NestedDone(process_nesteds(S,
                                  IF S.nesting # "" THEN iter_message_fields(msg, TRUE, <<>>)
                                  ELSE <<>>,
                                  NestedStart(S.types[msg.type].nested_tables)),
                  msg.type)

Checked(S, key) == IF ~Ok(S) THEN S ELSE [S EXCEPT !.checkeds = @ \cup {key}]

\* SqliteSink._process_type
_process_type(S, msg) ==
  IF ~Ok(S) \/ <<msg.type[2]>> \in S.checkeds THEN S
  ELSE Checked(process_type_nested(process_type_table(process_type_row(S, msg), msg), msg),
               <<msg.type[2]>>)

\* Connection.executescript(CREATE_TOPIC_VIEW % ..): an empty column list is
\* a syntax error in the CREATE VIEW, after the DROP VIEW has run.
create_topic_view(S, name, cols, type, topic) ==
  IF cols = <<>>
  THEN Raise(executescript(S, sql_drop_view(S.work, name)), "OperationalError")
  ELSE [executescript(S, sql_create_view(sql_drop_view(S.work, name), name, cols, type, topic))
          EXCEPT !.ev.views = @ \cup {name}]

\* _process_topic, lines 287-293: the topics row.
TopicInserted(S, topickey, typename, table_name) ==
  IF ~Ok(S) THEN S
  ELSE [S EXCEPT !.topics = Put(@, topickey,
                     [name |-> topickey[1], type |-> typename, md5 |-> topickey[2],
                      table_name |-> table_name, id |-> S.ret, view_name |-> NULL])]

InsertTopic(S, topickey, typename, table_name) ==
  TopicInserted(execute(S, INSERT_TOPIC, [name |-> topickey[1], type |-> typename,
                                          md5 |-> topickey[2], table_name |-> table_name]),
                topickey, typename, table_name)

process_topic_row(S, topic, msg, is_new) ==
  IF ~is_new THEN S
  ELSE InsertTopic(S, <<topic, msg.type[2]>>, msg.type[1],
                   _make_name(S, "table", msg.type[1], msg.type[2]))

\* _process_topic, lines 297-308: the view.  self._schema is a defaultdict:
\* reading a missing key adds it with no columns.
SchemaDefault(S, typekey) ==
  IF typekey \in DOMAIN S.schema THEN S ELSE [S EXCEPT !.schema = Put(@, typekey, <<>>)]

ViewCols(typecols) ==
  SelectSeq(ColNames(typecols),
            LAMBDA c : ~StartsWithUnderscore(c) \/ c \in Range(ColNames(MESSAGE_TYPE_BASECOLS)))

ViewNamed(S, topickey, view_name) ==
  IF ~Ok(S) THEN S
  ELSE execute([S EXCEPT !.topics[topickey].view_name = view_name],
               UPDATE_TOPIC_VIEW, [view_name |-> view_name, id |-> S.topics[topickey].id])

CreateView(S, topickey, typekey, view_name) ==
  ViewNamed(create_topic_view(S, view_name, ViewCols(S.schema[typekey]),
                              S.topics[topickey].table_name, topickey[1]),
            topickey, view_name)

process_topic_view(S, topic, msg, is_new) ==
  IF ~Ok(S) \/ ~is_new THEN S
  ELSE CreateView(SchemaDefault(S, msg.type), <<topic, msg.type[2]>>, msg.type,
                  _make_name(S, "view", topic, msg.type[2]))

\* SqliteSink._process_topic
_process_topic(S, topic, msg) ==
  IF ~Ok(S) \/ <<topic, msg.type[2]>> \in S.checkeds THEN S
  ELSE Checked(
         process_topic_view(
           _process_type(
             process_topic_row(S, topic, msg, <<topic, msg.type[2]>> \notin DOMAIN S.topics),
             msg),
           topic, msg, <<topic, msg.type[2]>> \notin DOMAIN S.topics),
         <<topic, msg.type[2]>>)

\* rosapi.to_nsec and rosapi.to_datetime of a message stamp.
to_nsec(stamp) == stamp.nsec
to_datetime(stamp) == <<"datetime", stamp.nsec>>

RECURSIVE _populate_type(_, _, _, _, _, _, _, _)
RECURSIVE populate_nesteds(_, _, _, _)
RECURSIVE populate_submsgs(_, _, _, _, _)

\* What _populate_type passes down to the rows of its nested messages.
Ctx(topic, stamp, root_typehash, typename, myid) ==
  [topic |-> topic, stamp |-> stamp, root_typehash |-> root_typehash,
   typename |-> typename, myid |-> myid]

\* _populate_type, lines 418-422: the loop over the messages of one nested
\* field; the result is the sink state and the ids returned so far.
SubPopulated(S, rest, scalartype, c, got) ==
  populate_submsgs(S, rest, scalartype, c, Append(got, S.ret))

populate_submsgs(S, submsgs, scalartype, c, got) ==
  IF submsgs = <<>> \/ ~Ok(S) THEN [s |-> S, ids |-> got]
  ELSE SubPopulated(_populate_type(S, c.topic, scalartype.name, Head(submsgs), c.stamp,
                                   V(c.root_typehash), V(c.typename), c.myid),
                    Tail(submsgs), scalartype, c, got)

\* _populate_type, lines 412-422: the loop over the nested fields; subids is
\* the sequence of [path, ids] in order of insertion.
FieldPopulated(L, f, rest, c, subids) ==
  populate_nesteds(L.s, rest, c,
                   IF f.type.arr THEN Append(subids, [path |-> f.path, ids |-> L.ids])
                   ELSE subids)

populate_nesteds(S, nesteds, c, subids) ==
  IF nesteds = <<>> \/ ~Ok(S) THEN [s |-> S, subids |-> subids]
  ELSE IF ~Head(nesteds).type.arr /\ S.nesting # "all"
  THEN populate_nesteds(S, Tail(nesteds), c, subids)
  ELSE FieldPopulated(
         populate_submsgs(S, IF Head(nesteds).type.arr THEN Head(nesteds).value
                             ELSE <<Head(nesteds).value>>,
                          scalar(Head(nesteds).type), c, <<>>),
         Head(nesteds), Tail(nesteds), c, subids)

\* _populate_type, lines 392-398: the value bound for a field.
FieldValue(f, nesting) ==
  IF f.type.arr /\ ~ROS_BUILTIN(scalar(f.type))
  THEN (IF nesting # "" THEN V(<<>>)
        ELSE V([i \in DOMAIN f.value |-> message_to_dict(f.value[i])]))
  ELSE V(f.value)

RowCols(fields, nesting) ==
  [i \in DOMAIN fields |-> fields[i].path]
  \o <<(<<"_topic">>), <<"_topic_id">>, <<"_dt">>, <<"_timestamp">>>>
  \o (IF nesting # "" THEN <<(<<"_id">>), <<"_parent_type">>, <<"_parent_id">>>> ELSE <<>>)

RowArgs(fields, nesting, topic, topic_id, stamp, myid, parent_type, parent_id) ==
  [i \in DOMAIN fields |-> FieldValue(fields[i], nesting)]
  \o <<V(topic), V(topic_id), V(to_datetime(stamp)), V(to_nsec(stamp))>>
  \o (IF nesting # "" THEN <<myid, parent_type, parent_id>> ELSE <<>>)

\* _populate_type, lines 423-428
UpdateIssued(S, table_name, cols, args) ==
  IF ~Ok(S) THEN S
  ELSE [S EXCEPT !.ev.updates = Append(@, [table |-> table_name, cols |-> cols,
                                           args |-> args])]

IssueUpdate(S, table_name, cols, args) ==
  UpdateIssued(_ensure_execute(S, SqlOn("UPDATE", table_name, cols), args),
               table_name, cols, args)

Returned(S, myid) ==
  IF ~Ok(S) THEN S ELSE [S EXCEPT !.ret = IF myid = NULL THEN 0 ELSE myid[1]]

NestedPopulated(L, table_name, myid) ==
  IF ~Ok(L.s) THEN L.s
  ELSE IF L.subids = <<>> THEN Returned(L.s, myid)
  ELSE Returned(IssueUpdate(L.s, table_name,
                            [i \in DOMAIN L.subids |-> L.subids[i].path],
                            [i \in DOMAIN L.subids |-> V(L.subids[i].ids)] \o <<myid>>),
                myid)

\* _populate_type, lines 407-422
RowIssued(S, table_name, myid, parent_type, parent_id, msg, c) ==
  IF ~Ok(S) THEN S
  ELSE NestedPopulated(
         populate_nesteds(
           [S EXCEPT !.ev.inserts = Append(@, [table |-> table_name, id |-> myid,
                                               parent_type |-> parent_type,
                                               parent_id |-> parent_id])],
           IF S.nesting # "" THEN iter_message_fields(msg, TRUE, <<>>) ELSE <<>>,
           c, <<>>),
         table_name, myid)

\* _populate_type, lines 399-407
IssueRow(S, table_name, myid, parent_type, parent_id, msg, c, topic_id) ==
  IF ~Ok(S) THEN S
  ELSE RowIssued(
         _ensure_execute(S,
           SqlOn("INSERT", table_name,
                 RowCols(iter_message_fields(msg, FALSE, <<>>), S.nesting)),
           RowArgs(iter_message_fields(msg, FALSE, <<>>), S.nesting, c.topic, topic_id,
                   c.stamp, myid, parent_type, parent_id)),
         table_name, myid, parent_type, parent_id, msg, c)

WithId(S, table_name, parent_type, parent_id, msg, topic, stamp, root_typehash, typename, topic_id) ==
  IF ~Ok(S) THEN S
  ELSE IssueRow(S, table_name, IF S.nesting # "" THEN V(S.ret) ELSE NULL,
                parent_type, parent_id, msg,
                Ctx(topic, stamp, root_typehash, typename,
                    IF S.nesting # "" THEN V(S.ret) ELSE NULL),
                topic_id)

\* _populate_type, lines 386-389 and 402
Populate(S, topic, typename, msg, stamp, root_typehash, parent_type, parent_id) ==
  IF <<topic, root_typehash>> \notin DOMAIN S.topics
     \/ <<typename, msg.type[2]>> \notin DOMAIN S.types
  THEN Raise(S, "KeyError")
  ELSE WithId(IF S.nesting # ""
              THEN _get_next_id(S, S.types[<<typename, msg.type[2]>>].table_name)
              ELSE S,
              S.types[<<typename, msg.type[2]>>].table_name,
              parent_type, parent_id, msg, topic, stamp, root_typehash, typename,
              S.topics[<<topic, root_typehash>>].id)

\* SqliteSink._populate_type: ret is the id returned (0 for None).
_populate_type(S, topic, typename, msg, stamp, root_typehash, parent_type, parent_id) ==
  IF ~Ok(S) THEN S
  ELSE Populate(S, topic, typename, msg, stamp,
                IF root_typehash = NULL THEN msg.type[2] ELSE root_typehash[1],
                parent_type, parent_id)

\* The flush of lines 374-375 and of close(): each template is popped from
\* the queue and run with all its rows.
RECURSIVE execute_queue(_)
execute_queue(S) ==
  IF S.queue = <<>> \/ ~Ok(S) THEN S
  ELSE execute_queue(executemany([S EXCEPT !.queue = Tail(@)],
                                 Head(S.queue).sql, Head(S.queue).rows))

\* _process_message, lines 372-376
Flushed(S) == IF ~Ok(S) THEN S ELSE [S EXCEPT !.ev.flushed = TRUE]

\* The threshold test with > for >=.
do_commit_above(S) == QueueTotal(S.queue) > S.interval

do_commit(S) == QueueTotal(S.queue) >= S.interval

MaybeFlush(S) ==
  IF ~Ok(S) THEN S
  ELSE IF S.interval # 0 /\ do_commit(S) THEN Flushed(commit(execute_queue(S)))
  ELSE S

\* _process_message, lines 363-371
LogMessage(S, topic, msg, stamp, margs) ==
  _populate_type(_ensure_execute(_ensure_execute(S, INSERT_MESSAGE, margs),
                                 UPDATE_TOPIC, margs),
                 topic, msg.type[1], msg, stamp, NULL, NULL, NULL)

\* SqliteSink._process_message
_process_message(S, topic, msg, stamp) ==
  IF ~Ok(S) THEN S
  ELSE MaybeFlush(LogMessage(S, topic, msg, stamp,
                             [timestamp |-> to_nsec(stamp), topic |-> topic,
                              name |-> topic,
                              topic_id |-> S.topics[<<topic, msg.type[2]>>].id,
                              type |-> msg.type[1]]))

\* name LIKE '%/%': the names of type tables start with a type name, and
\* every type name is "package/Type".
LikeSlash(name) == name[1] \in {"pkg/Leaf", "pkg/Root", "pkg/Top", "pkg/Twin"}

\* The rows of topics and types as _load_schema keeps them.
TopicRow(r) ==
  [name |-> r.name, type |-> r.type, md5 |-> r.md5, table_name |-> r.table_name,
   id |-> r.id, view_name |-> r.view_name]

TypeRow(r) ==
  [type |-> r.type, md5 |-> r.md5, table_name |-> r.table_name, id |-> r.id,
   nested_tables |-> IF r.nested_tables = NULL THEN [kind |-> "none", map |-> <<>>]
                     ELSE [kind |-> "str", map |-> r.nested_tables[1]]]

\* {key(row): row}, a later row replacing an earlier one of the same key.
LoadTopics(rows) ==
  [k \in {<<rows[i].name, rows[i].md5>> : i \in DOMAIN rows} |->
     TopicRow(rows[SetMax({i \in DOMAIN rows : <<rows[i].name, rows[i].md5>> = k})])]

LoadTypes(rows) ==
  [k \in {<<rows[i].type, rows[i].md5>> : i \in DOMAIN rows} |->
     TypeRow(rows[SetMax({i \in DOMAIN rows : <<rows[i].type, rows[i].md5>> = k})])]

\* next(x for x in self._types.values() if x["table_name"] == row["name"])
Owners(D, n) == {i \in DOMAIN D.types : D.types[i].table_name = n}
Owner(D, n) ==
  LET r == D.types[CHOOSE i \in Owners(D, n) : \A j \in Owners(D, n) : i <= j]
  IN <<r.type, r.md5>>

\* lines 269-275: the columns of each type table that do not start with "_"
LoadSchema(D, names) ==
  [k \in {Owner(D, n) : n \in names} |->
     SelectSeq(D.tables[CHOOSE n \in names : Owner(D, n) = k].cols,
               LAMBDA c : ~StartsWithUnderscore(c.name))]

\* SqliteSink._load_schema
_load_schema(S) ==
  IF ~Ok(S) THEN S
  ELSE IF \E n \in DOMAIN S.work.tables : LikeSlash(n) /\ Owners(S.work, n) = {}
  THEN Raise([S EXCEPT
                !.topics = LoadTopics(S.work.topics),
                !.types = LoadTypes(S.work.types)],
             "StopIteration")
  ELSE [S EXCEPT
          !.topics = LoadTopics(S.work.topics),
          !.types = LoadTypes(S.work.types),
          !.schema = LoadSchema(S.work, {n \in DOMAIN S.work.tables : LikeSlash(n)})]

\* Connection.execute of the ALTER TABLE of _ensure_columns: no transaction is
\* open when _init_db runs it, so it is committed as it ends.
Altered(S, table, r) ==
  IF r.err # "none" THEN Raise([S EXCEPT !.ev.alters = @ \cup {table}], r.err)
  ELSE [S EXCEPT !.work = r.db, !.store = r.db, !.ev.altered = @ \cup {table},
                 !.ev.alters = @ \cup {table}]

alter_table(S, table, missing) == Altered(S, table, sql_alter_add(S.work, table, missing))

\* SqliteSink._ensure_columns, the type keys taken in the order given.
RECURSIVE ensure_columns_loop(_, _, _)

ColumnsAdded(S, typekeys, cols, missing) ==
  IF ~Ok(S) THEN S
  ELSE ensure_columns_loop([S EXCEPT !.schema[Head(typekeys)] = @ \o missing],
                           Tail(typekeys), cols)

AddMissing(S, typekeys, cols, missing) ==
  IF missing = <<>> THEN ensure_columns_loop(S, Tail(typekeys), cols)
  ELSE ColumnsAdded(alter_table(S, S.types[Head(typekeys)].table_name, missing),
                    typekeys, cols, missing)

ensure_columns_loop(S, typekeys, cols) ==
  IF typekeys = <<>> \/ ~Ok(S) THEN S
  ELSE AddMissing(S, typekeys, cols,
                  SelectSeq(cols, LAMBDA c :
                              c.name \notin Range(ColNames(S.schema[Head(typekeys)]))))

\* The keys of self._schema in the order of the rows of table types.
SchemaKeys(S) ==
  SelectSeq([i \in DOMAIN S.work.types |-> <<S.work.types[i].type, S.work.types[i].md5>>],
            LAMBDA k : k \in DOMAIN S.schema)

_ensure_columns(S, cols) ==
  IF ~Ok(S) THEN S ELSE ensure_columns_loop(S, SchemaKeys(S), cols)

\* The type tables of a database, and those without the linkage columns.
TypeTables(D) == {n \in DOMAIN D.tables : LikeSlash(n)}
Unlinked(D) ==
  {n \in TypeTables(D) :
     ~(Range(ColNames(MESSAGE_TYPE_NESTCOLS)) \subseteq Range(ColNames(D.tables[n].cols)))}

\* _init_db, lines 241-255: the dictionaries are cleared, the file is opened.
Connected(S) ==
  [S EXCEPT !.topics = <<>>, !.types = <<>>, !.schema = <<>>, !.checkeds = {},
            !.queue = <<>>, !.counters = <<>>,
            !.interval = IF S.option = NULL THEN @ ELSE S.option[1],
            !.db = "open", !.work = S.store,
            !.ev.init = TRUE, !.ev.unlinked = Unlinked(S.store)]

EnsureNesting(S) ==
  IF S.nesting # "" THEN _ensure_columns(S, MESSAGE_TYPE_NESTCOLS) ELSE S

\* SqliteSink._init_db
_init_db(S) == EnsureNesting(_load_schema(Connected(S)))

\* emit without the lazy opening of lines 211-212.
Opened_no_init(S) == S

\* SqliteSink.emit
Opened(S) == IF S.db = "None" THEN _init_db(S) ELSE S

emit(S, topic, msg, stamp) ==
  _process_message(_process_topic(Opened(S), topic, msg), topic, msg, stamp)

\* close(), lines 223-224: the connection is closed, uncommitted changes go.
Released(S) ==
  IF ~Ok(S) THEN S
  ELSE [S EXCEPT !.ev.discarded = (S.work # S.store), !.work = S.store, !.db = "None"]

\* close() without the loop of lines 221-222.
close_unflushed(S, fail) ==
  IF S.db = "None" THEN S ELSE Released(S)

\* SqliteSink.close; fail: the storage engine rejects the first batch run.
close(S, fail) ==
  IF S.db = "None" THEN S
  ELSE IF fail /\ S.queue # <<>>
  THEN Raise([S EXCEPT !.queue = Tail(@)], "OperationalError")
  ELSE Released(execute_queue(S))

----------------------------------------------------------------------------
(* main.py: run() *)

BREAK_EXS == {"KeyboardInterrupt", "BrokenPipeError"}

\* run() at its start. pc: where it is; source, sink: its locals ("None" or
\* "obj"); made: the source object was constructed; calls: the close()
\* calls made so far, "sink" or "source"; exc: the exception on its way out.
NoRun ==
  [pc |-> "args", source |-> "None", sink |-> "None", made |-> FALSE,
   calls |-> <<>>, exc |-> "none"]

\* An exception leaves the try block: to the handler of BREAK_EXS, if it is
\* one of them, and to the finally block.
raised(R, e) == [R EXCEPT !.exc = e, !.pc = IF e \in BREAK_EXS THEN "except" ELSE "finally"]

\* Lines 420-423, try: x and x.close() / except: pass, for x = who.
except_close(R, who, next) ==
  [R EXCEPT !.calls = IF R[who] = "None" THEN @ ELSE Append(@, who), !.pc = next]

\* The finally block closing only when no exception is on its way out.
finally_close_unraised(R, who, e, next) ==
  IF R[who] = "None" \/ R.exc # "none" THEN [R EXCEPT !.pc = next]
  ELSE [R EXCEPT !.calls = Append(@, who),
                 !.pc = IF e = "none" THEN next ELSE "done",
                 !.exc = IF e = "none" THEN @ ELSE e]

\* Lines 430-431, x and x.close() in the finally block, for x = who; e is
\* what the call raises, which ends run().
finally_close(R, who, e, next) ==
  IF R[who] = "None" THEN [R EXCEPT !.pc = next]
  ELSE [R EXCEPT !.calls = Append(@, who),
                 !.pc = IF e = "none" THEN next ELSE "done",
                 !.exc = IF e = "none" THEN @ ELSE e]

----------------------------------------------------------------------------
(* plugins/mcap.py: McapBag *)

E9 == 1000000000

\* nanosec / 1E9, a float: kept as the exact fraction it stands for.
Sec(nanosec) == [num |-> nanosec, den |-> E9]
\* min() of two of them: both are fractions over the same 1E9.
MinSec(a, b) == IF a.num <= b.num THEN a ELSE b

\* A message of an MCAP file: [topic, type, nsec]; its key in self._topics.
topickey(m) == <<m.topic, m.type[1], m.type[2]>>
Counted(data, k) == Cardinality({i \in DOMAIN data : topickey(data[i]) = k})
Nsecs(data) == {data[i].nsec : i \in DOMAIN data}

\* No bag made yet. The fields of a bag: mode, topics {topickey: count},
\* types and typedefs (the keys of the maps), start_time, end_time, file
\* ("None", "open", or "shut": a file object that was closed), ttinfo, opened;
\* data: the messages of the file, or those handed to the writer;
\* op, arg, exc, ret: the last call, its argument and its outcome; did: what
\* the last call did to the file and the writer, in order.
NoBag ==
  [mode |-> "r", topics |-> <<>>, types |-> {}, typedefs |-> {},
   start_time |-> NULL, end_time |-> NULL, file |-> "None", ttinfo |-> NULL,
   opened |-> FALSE, data |-> <<>>, op |-> "none", arg |-> NULL,
   exc |-> "none", ret |-> NULL, did |-> <<>>]

Called(B, op, arg) ==
  [B EXCEPT !.op = op, !.arg = arg, !.exc = "none", !.ret = NULL, !.did = <<>>]

\* get_message_count(topic_filters): topic_filters as a set of topics, {}
\* for None.
get_message_count(B, topic_filters) ==
  SumOver(B.topics, {k \in DOMAIN B.topics : topic_filters = {} \/ k[1] \in topic_filters})

\* The statistics of the file's summary: 0 for a file without messages.
_populate_meta(B) ==
  [B EXCEPT
     !.start_time = V(Sec(IF B.data = <<>> THEN 0
                          ELSE CHOOSE n \in Nsecs(B.data) : \A x \in Nsecs(B.data) : n <= x)),
     !.end_time = V(Sec(IF B.data = <<>> THEN 0
                        ELSE CHOOSE n \in Nsecs(B.data) : \A x \in Nsecs(B.data) : n >= x)),
     !.topics = [k \in DOMAIN B.topics \cup {topickey(m) : m \in Range(B.data)} |->
                   (IF k \in DOMAIN B.topics THEN B.topics[k] ELSE 0) + Counted(B.data, k)],
     !.typedefs = @ \cup {m.type : m \in Range(B.data)}]

\* open(): mode "wb" empties the file.
McapBag_open(B) ==
  IF B.file # "None" THEN B
  ELSE IF B.opened /\ B.mode = "w" THEN [B EXCEPT !.exc = "UnsupportedOperation"]
  ELSE IF B.mode = "r" THEN [_populate_meta([B EXCEPT !.file = "open"]) EXCEPT !.opened = TRUE]
  ELSE [B EXCEPT !.file = "open", !.data = <<>>, !.opened = TRUE]

\* McapBag(filename, mode), data being what the file holds.
McapBag(mode, data) ==
  McapBag_open([Called(NoBag, "init", NULL) EXCEPT !.mode = mode, !.data = data])

\* close(): the file is closed first; the writer's finish() then writes
\* the footer to the closed file, which raises, and line 286 is not reached.
McapBag_close(B) ==
  IF B.file = "None" THEN B
  ELSE IF B.mode = "w"
  THEN [B EXCEPT !.file = "shut", !.exc = "ValueError", !.did = <<"file.close", "finish">>]
  ELSE [B EXCEPT !.file = "None", !.did = <<"file.close">>]

\* get_type_and_topic_info(topic_filters): topic_filters as the set of the
\* topics asked for, {} for None or an empty list. Every topic of the
\* model carries one type, so topics holds one entry per key.
Selected(B, topics) == {k \in DOMAIN B.topics : topics = {} \/ k[1] \in topics}

get_type_and_topic_info(B, topic_filters) ==
  IF B.ttinfo # NULL THEN [B EXCEPT !.ret = B.ttinfo]
  ELSE IF B.file = "None" THEN [B EXCEPT !.exc = "ValueError"]
  ELSE [B EXCEPT
          !.ttinfo = V([msgtypes |-> {<<k[2], k[3]>> : k \in Selected(B, topic_filters)},
                        topics |-> [t \in {k[1] : k \in Selected(B, topic_filters)} |->
                                      [type |-> (CHOOSE k \in Selected(B, topic_filters) : k[1] = t)[2],
                                       count |-> B.topics[CHOOSE k \in Selected(B, topic_filters) : k[1] = t]]]]),
          !.ret = V([msgtypes |-> {<<k[2], k[3]>> : k \in Selected(B, topic_filters)},
                     topics |-> [t \in {k[1] : k \in Selected(B, topic_filters)} |->
                                   [type |-> (CHOOSE k \in Selected(B, topic_filters) : k[1] = t)[2],
                                    count |-> B.topics[CHOOSE k \in Selected(B, topic_filters) : k[1] = t]]]])]

\* read_messages(topics), the generator run to its end: topics as the set of
\* the topics asked for, {} for None.
Yielded(B, topics) == {i \in DOMAIN B.data : topics = {} \/ B.data[i].topic \in topics}

read_messages(B, topics) ==
  IF B.file = "None" THEN [B EXCEPT !.exc = "ValueError"]
  ELSE IF B.mode = "w" THEN [B EXCEPT !.exc = "UnsupportedOperation"]
  ELSE [B EXCEPT !.types = @ \cup {B.data[i].type : i \in Yielded(B, topics)},
                 !.ret = V({B.data[i] : i \in Yielded(B, topics)})]

\* write(topic, msg, t). full: the writer's chunk is full and goes to the
\* file with this message, which raises when the file was closed.
Written(B, topic, typekey, nanosec) ==
  [B EXCEPT
     !.start_time = V(IF @ = NULL THEN Sec(nanosec) ELSE MinSec(Sec(nanosec), @[1])),
     !.end_time = V(IF @ = NULL THEN Sec(nanosec) ELSE MinSec(Sec(nanosec), @[1])),
     !.topics = [k \in DOMAIN @ \cup {<<topic, typekey[1], typekey[2]>>} |->
                   (IF k \in DOMAIN @ THEN @[k] ELSE 0)
                   + (IF k = <<topic, typekey[1], typekey[2]>> THEN 1 ELSE 0)],
     !.types = @ \cup {typekey},
     !.typedefs = @ \cup {typekey},
     !.ttinfo = NULL,
     !.data = Append(@, [topic |-> topic, type |-> typekey, nsec |-> nanosec])]

\* The tests of lines 233 and 234 in the other order.
write_modefirst(B, topic, msg, t, full) ==
  IF B.mode = "r" THEN [B EXCEPT !.exc = "UnsupportedOperation"]
  ELSE IF B.file = "None" THEN [B EXCEPT !.exc = "ValueError"]
  ELSE IF B.file = "shut" /\ full THEN [B EXCEPT !.exc = "ValueError"]
  ELSE Written(B, topic, msg.type, to_nsec(t))

write(B, topic, msg, t, full) ==
  IF B.file = "None" THEN [B EXCEPT !.exc = "ValueError"]
  ELSE IF B.mode = "r" THEN [B EXCEPT !.exc = "UnsupportedOperation"]
  ELSE IF B.file = "shut" /\ full THEN [B EXCEPT !.exc = "ValueError"]
  ELSE Written(B, topic, msg.type, to_nsec(t))

----------------------------------------------------------------------------
(* The state machine *)

COMMIT_INTERVAL_DEFAULT == 1000

Nestings == {"", "array", "all"}
Stamp1 == [nsec |-> 1]

Cur(op) ==
  [store |-> store, work |-> work, db |-> _db, nesting |-> _nesting,
   option |-> option_interval, interval |-> COMMIT_INTERVAL, topics |-> _topics,
   types |-> _types, schema |-> _schema, checkeds |-> _checkeds, queue |-> _sql_queue,
   counters |-> _id_counters, exc |-> "none", ret |-> 0,
   ev |-> [NoEv(op) EXCEPT !.was_closed = (_db = "None"),
                           !.before = QueueTotal(_sql_queue)]]

Becomes(S, R) ==
  /\ store' = S.store
  /\ work' = S.work
  /\ _db' = S.db
  /\ _nesting' = S.nesting
  /\ option_interval' = S.option
  /\ COMMIT_INTERVAL' = S.interval
  /\ _topics' = S.topics
  /\ _types' = S.types
  /\ _schema' = S.schema
  /\ _checkeds' = S.checkeds
  /\ _sql_queue' = S.queue
  /\ _id_counters' = S.counters
  /\ last' = [S.ev EXCEPT !.exc = S.exc]
  /\ nemits' = nemits + (IF S.ev.op = "emit" THEN 1 ELSE 0)
  /\ bag' = bag
  /\ run' = R

\* SqliteSink.__init__ on the same file, by a later run of the program.
NewSink(nesting, interval) ==
  /\ nemits < MaxEmits
  /\ _db = "None"
  /\ Becomes([Cur("init") EXCEPT !.nesting = nesting, !.option = interval,
                                 !.interval = COMMIT_INTERVAL_DEFAULT,
                                 !.topics = <<>>, !.types = <<>>, !.schema = <<>>,
                                 !.checkeds = {}, !.queue = <<>>, !.counters = <<>>],
             run)

\* The length of the arrays of a message made by MakeMsg.
Items(msg) == IF "items" \in DOMAIN msg.val THEN Len(msg.val["items"]) ELSE 0

Emit(topic, msg, stamp) ==
  /\ nemits < MaxEmits
  /\ Becomes(emit([Cur("emit") EXCEPT !.ev.topic = topic, !.ev.type = msg.type,
                                      !.ev.items = Items(msg),
                                      !.ev.stamp = to_nsec(stamp)],
                  topic, msg, stamp),
             run)

Close(fail) ==
  /\ fail => (_db = "open" /\ _sql_queue # <<>>)
  /\ Becomes(close(Cur("close"), fail), run)

InitWith(N, I) ==
  /\ store = EmptyDB
  /\ work = EmptyDB
  /\ _db = "None"
  /\ _nesting \in N
  /\ option_interval \in I
  /\ COMMIT_INTERVAL = COMMIT_INTERVAL_DEFAULT
  /\ _topics = <<>>
  /\ _types = <<>>
  /\ _schema = <<>>
  /\ _checkeds = {}
  /\ _sql_queue = <<>>
  /\ _id_counters = <<>>
  /\ last = NoEv("init")
  /\ nemits = 0
  /\ bag = NoBag
  /\ run = NoRun

\* Sinks with nesting in N and commit-interval in I, emitting messages of M
\* on the topics of T; F: whether the storage engine may reject a batch.
NextWith(N, I, T, M, F) ==
  \/ \E nesting \in N, interval \in I : NewSink(nesting, interval)
  \/ \E topic \in T, msg \in M : Emit(topic, msg, Stamp1)
  \/ \E fail \in F : Close(fail)

\* Every nesting mode, autocommit and batches of 3, two topics, the six types.
SpecMsgs == {MakeMsg(TLeaf1, 0, 0), MakeMsg(TLeaf2, 0, 0), MakeMsg(TTwin1, 0, 0),
             MakeMsg(TRoot3, 0, 2), MakeMsg(TRoot4, 0, 2), MakeMsg(TTop5, 0, 1)}
Init == InitWith(Nestings, {V(0), V(3)})
Next == NextWith(Nestings, {V(0), V(3)}, {"/a", "/b"}, SpecMsgs, {FALSE})
Spec == Init /\ [][Next]_vars

\* Batched writing: commit intervals 2, 4 and the default, with and without
\* nesting, one topic, two flat types and a nesting type with arrays of every
\* length; the storage engine may reject a batch at close.
BatchMsgs == {MakeMsg(TLeaf1, 0, 0), MakeMsg(TLeaf2, 0, 0)}
             \cup {MakeMsg(TRoot3, 0, n) : n \in 0..MaxArr}
InitBatch == InitWith({"", "all"}, {V(2), V(4), NULL})
NextBatch == NextWith({"", "all"}, {V(2), V(4), NULL}, {"/a"}, BatchMsgs, BOOLEAN)
SpecBatch == InitBatch /\ [][NextBatch]_vars

\* Closing and opening again: every nesting mode, autocommit and batches of
\* 3, one topic, a flat and a nesting type.
OpenMsgs == {MakeMsg(TLeaf1, 0, 0), MakeMsg(TRoot4, 0, 1)}
InitOpen == InitWith(Nestings, {V(0), V(3)})
NextOpen == NextWith(Nestings, {V(0), V(3)}, {"/a"}, OpenMsgs, {FALSE})
SpecOpen == InitOpen /\ [][NextOpen]_vars

\* Records arriving in any order of their stamps: nesting off, autocommit
\* and batches of 2, two topics, two flat types of one name.
Stamps == {[nsec |-> n] : n \in 1..MaxStamp}
StampMsgs == {MakeMsg(TLeaf1, 0, 0), MakeMsg(TLeaf2, 0, 0)}
InitStamps == InitWith({""}, {V(0), V(2)})
NextStamps ==
  \/ \E interval \in {V(0), V(2)} : NewSink("", interval)
  \/ \E topic \in {"/a", "/b"}, msg \in StampMsgs, stamp \in Stamps : Emit(topic, msg, stamp)
  \/ Close(FALSE)
SpecStamps == InitStamps /\ [][NextStamps]_vars

\* SqliteSink.validate: "" stands for the option left out (None) as well,
\* which the sink tests alike.
validate_any(nesting) == TRUE

validate(nesting) == nesting \in {"", "array", "all"}

\* main.run: the sink is made from the arguments, whatever the nesting
\* option holds; the search, which emits, starts only if the sink validates;
\* the sink is closed at the end in every case.
NextRun ==
  \/ \E nesting \in Nestings \cup {"both"}, interval \in {V(0), V(3)} : NewSink(nesting, interval)
  \/ \E msg \in OpenMsgs : validate(_nesting) /\ Emit("/a", msg, Stamp1)
  \/ Close(FALSE)
SpecRun == InitOpen /\ [][NextRun]_vars

\* One McapBag, made on a file of at most MaxFile messages or for
\* writing, at most MaxWrites messages handed to a writer, and no open() once
\* a count is above MaxFile.
MaxFile == 2
MaxWrites == 3

BagMsgs == {<<"/a", MakeMsg(TLeaf1, 0, 0)>>, <<"/b", MakeMsg(TTwin1, 0, 0)>>}
BagFilters == {{}, {"/a"}, {"/b"}}
FileMsgs == {[topic |-> tm[1], type |-> tm[2].type, nsec |-> to_nsec(t)] : tm \in BagMsgs, t \in Stamps}
BagFiles == UNION {[1..n -> FileMsgs] : n \in 0..MaxFile}

BagStep(B) ==
  /\ bag' = B
  /\ UNCHANGED <<store, work, _db, _nesting, option_interval, COMMIT_INTERVAL, _topics,
                 _types, _schema, _checkeds, _sql_queue, _id_counters, last, nemits, run>>

InitBag == InitWith({""}, {NULL})
NextBag ==
  \/ \E mode \in {"r", "w"}, data \in BagFiles : ~bag.opened /\ BagStep(McapBag(mode, data))
  \/ /\ bag.opened /\ \A k \in DOMAIN bag.topics : bag.topics[k] <= MaxFile
     /\ BagStep(McapBag_open(Called(bag, "open", NULL)))
  \/ bag.opened /\ BagStep(McapBag_close(Called(bag, "close", NULL)))
  \/ \E topics \in BagFilters :
       bag.opened /\ BagStep(get_type_and_topic_info(Called(bag, "get_type_and_topic_info", topics), topics))
  \/ \E topics \in BagFilters :
       bag.opened /\ BagStep(read_messages(Called(bag, "read_messages", topics), topics))
  \/ \E tm \in BagMsgs, t \in Stamps, full \in BOOLEAN :
       /\ bag.opened /\ Len(bag.data) < MaxWrites /\ (full => bag.file = "shut")
       /\ BagStep(write(Called(bag, "write", <<tm[1], tm[2].type, to_nsec(t)>>), tm[1], tm[2], t, full))
SpecBag == InitBag /\ [][NextBag]_vars

\* run() with an SqliteSink as its sink: the sink of the initial state is
\* the one its constructor makes from the arguments.
RunStep(R) ==
  /\ run' = R
  /\ UNCHANGED <<store, work, _db, _nesting, option_interval, COMMIT_INTERVAL, _topics,
                 _types, _schema, _checkeds, _sql_queue, _id_counters, last, nemits, bag>>

InitMain == InitWith(Nestings \cup {"both"}, {V(0), NULL})
NextMain ==
  \/ \E ok \in BOOLEAN :
       /\ run.pc = "args"
       /\ RunStep(IF ok THEN [run EXCEPT !.pc = "construct"] ELSE raised(run, "SystemExit"))
  \/ \E e \in {"Exception", "KeyboardInterrupt"}, made \in BOOLEAN :
       /\ run.pc = "construct"
       /\ RunStep(raised([run EXCEPT !.made = made], e))
  \/ /\ run.pc = "construct"
     /\ RunStep([run EXCEPT !.made = TRUE, !.source = "obj", !.sink = "obj", !.pc = "validate"])
  \/ \E ok \in BOOLEAN :
       /\ run.pc = "validate"
       /\ RunStep(IF ok /\ validate(_nesting) THEN [run EXCEPT !.pc = "search"]
                  ELSE raised(run, "SystemExit"))
  \/ \E msg \in OpenMsgs :
       /\ run.pc = "search" /\ nemits < MaxEmits
       /\ Becomes(emit([Cur("emit") EXCEPT !.ev.topic = "/a", !.ev.type = msg.type,
                                           !.ev.items = Items(msg),
                                           !.ev.stamp = to_nsec(Stamp1)],
                       "/a", msg, Stamp1),
                  IF last'.exc = "none" THEN run ELSE raised(run, "Exception"))
  \/ \E e \in {"none"} \cup BREAK_EXS :
       /\ run.pc = "search"
       /\ RunStep(IF e = "none" THEN [run EXCEPT !.pc = "finally"] ELSE raised(run, e))
  \/ /\ run.pc = "except" /\ run.sink = "None"
     /\ RunStep(except_close(run, "sink", "except_source"))
  \/ \E fail \in BOOLEAN :
       /\ run.pc = "except" /\ run.sink # "None"
       /\ fail => (_db = "open" /\ _sql_queue # <<>>)
       /\ Becomes(close(Cur("close"), fail), except_close(run, "sink", "except_source"))
  \/ /\ run.pc = "except_source"
     /\ RunStep([except_close(run, "source", "finally") EXCEPT !.exc = "SystemExit"])
  \/ /\ run.pc = "finally" /\ run.sink = "None"
     /\ RunStep(finally_close(run, "sink", "none", "finally_source"))
  \/ \E fail \in BOOLEAN :
       /\ run.pc = "finally" /\ run.sink # "None"
       /\ fail => (_db = "open" /\ _sql_queue # <<>>)
       /\ Becomes(close(Cur("close"), fail),
                  finally_close(run, "sink", last'.exc, "finally_source"))
  \/ \E e \in {"none", "Exception"} :
       /\ run.pc = "finally_source"
       /\ RunStep(finally_close(run, "source", e, "done"))
SpecMain == InitMain /\ [][NextMain]_vars

----------------------------------------------------------------------------
(* Properties *)

IsRoot(typekey) == typekey # <<>> /\ typekey[1] = "pkg/Root"
ClosedOpen == last.op = "close" /\ ~last.was_closed

\* C1: with batching enabled, close() executes every queued batch and
\* commits before it releases the connection, so that nothing the emits
\* enqueued is lost: the connection is never closed on uncommitted changes.
C1_CloseCommits ==
  (ClosedOpen /\ COMMIT_INTERVAL > 0 /\ last.exc = "none") => ~last.discarded

\* C2: with threshold T > 0, when exactly T rows have been enqueued since
\* the last flush the queue is empty, and when T-1 rows have been, it is not.
C2_Threshold ==
  (last.op = "emit" /\ COMMIT_INTERVAL > 0) =>
     /\ (last.before + last.enq = COMMIT_INTERVAL) => (_sql_queue = <<>>)
     /\ (last.before + last.enq = COMMIT_INTERVAL - 1) => (_sql_queue # <<>>)

\* C3: no two distinct (type name, hash) keys of the type catalog share a
\* table name, whether registered as a topic's type or as a nested type.
C3_DistinctTables ==
  \A k1, k2 \in DOMAIN _types :
    k1 # k2 => _types[k1].table_name # _types[k2].table_name

\* C4: the drop-then-create statement is never run against the name of a
\* table that exists in the store.
C4_NoDropExisting == last.dropped = {}

C6_CloseReleases == (last.op = "close") => (_db = "None")

\* C7: under nesting "all", a record with one nested message and an array
\* of two nested messages has four rows inserted, the three children carry
\* the parent's allocated id as _parent_id, and the parent's array column is
\* set to the ids of the two array children, in order.
C7_NestAll ==
  (last.op = "emit" /\ _nesting = "all" /\ IsRoot(last.type) /\ last.items = 2) =>
     /\ Len(last.inserts) = 4
     /\ last.inserts[1].id # NULL
     /\ \A i \in 2..4 : last.inserts[i].parent_id = last.inserts[1].id
     /\ Len(last.updates) = 1
     /\ last.updates[1].cols = <<(<<"items">>)>>
     /\ last.updates[1].args = <<V(<<last.inserts[3].id[1], last.inserts[4].id[1]>>),
                                 last.inserts[1].id>>

\* C8: under nesting "array", a record with one nested message and an array
\* of two nested messages has its own row and two child rows inserted, and
\* the nested message that is not in an array gets no child table or row.
C8_NestArray ==
  (last.op = "emit" /\ _nesting = "array" /\ IsRoot(last.type) /\ last.items = 2) =>
     /\ Len(last.inserts) = 3
     /\ \A i \in 2..3 : last.inserts[i].parent_id = last.inserts[1].id
     /\ last.type \in DOMAIN _types
     /\ _types[last.type].nested_tables.kind = "dict"
     /\ DOMAIN _types[last.type].nested_tables.map = {<<"items">>}

\* C9: with nesting off, emitting a record that holds nested messages
\* inserts one row, into the record's own type table, allocates no id,
\* creates no child table and issues no update of the row.
C9_NestOff ==
  (last.op = "emit" /\ _nesting = "" /\ IsRoot(last.type)) =>
     /\ last.exc = "none"
     /\ Len(last.inserts) = 1
     /\ last.inserts[1].table = _types[last.type].table_name
     /\ last.inserts[1].id = NULL
     /\ last.ids = <<>>
     /\ last.updates = <<>>
     /\ last.created \subseteq {_types[last.type].table_name}

\* C10: opening with nesting enabled a store whose type tables were written
\* without nesting leaves every type table of the store, and its column
\* layout in memory, with the columns _parent_type and _parent_id.
C10_LinkageAdded ==
  (last.op = "emit" /\ last.init /\ _nesting # "" /\ last.unlinked # {}) =>
     /\ Unlinked(store) = {}
     /\ \A k \in DOMAIN _schema :
          Range(ColNames(MESSAGE_TYPE_NESTCOLS)) \subseteq Range(ColNames(_schema[k]))

\* C11: opening with nesting a store whose type tables already have the
\* linkage columns issues no column-add for those tables: an ALTER TABLE is
\* issued only for the type tables that lacked a linkage column when opened.
C11_EvolutionIdempotent ==
  (last.op = "emit" /\ last.init /\ _nesting # "") => (last.alters \subseteq last.unlinked)

\* C12: opening a store, writing records and closing it, then opening the
\* same store again without writing, loads a Type Catalog and a Topic Catalog
\* equal to those held in memory just before the close: the same keys, and
\* for each key the same table name, view name and nested-table map.
SameCatalogs(S) ==
  /\ DOMAIN S.topics = DOMAIN _topics
  /\ \A k \in DOMAIN S.topics \cap DOMAIN _topics :
        /\ S.topics[k].table_name = _topics[k].table_name
        /\ S.topics[k].view_name = _topics[k].view_name
  /\ DOMAIN S.types = DOMAIN _types
  /\ \A k \in DOMAIN S.types \cap DOMAIN _types :
        /\ S.types[k].table_name = _types[k].table_name
        /\ S.types[k].nested_tables.map = _types[k].nested_tables.map

C12_ReopenSameCatalogs ==
  (ClosedOpen /\ last.exc = "none") => SameCatalogs(_load_schema(Connected(Cur("init"))))

\* C13: a topic's persisted message count grows by exactly one with each
\* record emitted on that (topic name, hash), and is left unchanged by a
\* record on any other topic descriptor, one with the same topic name and
\* type name but another hash included (autocommit, the emit raising nothing).
C13_CountPerTopicKey ==
  [][(last'.op = "emit" /\ last'.exc = "none" /\ COMMIT_INTERVAL' = 0) =>
       \A i \in DOMAIN store'.topics :
         store'.topics[i].count =
           (IF i \in DOMAIN store.topics THEN store.topics[i].count ELSE 0)
           + (IF <<store'.topics[i].name, store'.topics[i].md5>> = <<last'.topic, last'.type[2]>>
              THEN 1 ELSE 0)]_vars

\* C14: after the first record written on a topic descriptor its stored first
\* and last timestamps both equal that record's timestamp; each later record
\* on the topic makes the first the smaller of the stored first and its own
\* timestamp and the last the larger, whatever the order of arrival, and a
\* record on another topic descriptor changes neither: the two are the
\* minimum and the maximum of the timestamps written on the topic.
C14_FirstLastMinMax ==
  [][(last'.op = "emit" /\ last'.exc = "none" /\ COMMIT_INTERVAL' = 0) =>
       \A i \in DOMAIN store'.topics :
         IF <<store'.topics[i].name, store'.topics[i].md5>> = <<last'.topic, last'.type[2]>>
         THEN IF i \in DOMAIN store.topics /\ store.topics[i].timestamp_first # NULL
              THEN /\ store'.topics[i].timestamp_first
                        = V(Min2(store.topics[i].timestamp_first[1], last'.stamp))
                   /\ store'.topics[i].timestamp_last
                        = V(Max2(store.topics[i].timestamp_last[1], last'.stamp))
              ELSE /\ store'.topics[i].timestamp_first = V(last'.stamp)
                   /\ store'.topics[i].timestamp_last = V(last'.stamp)
         ELSE /\ i \in DOMAIN store.topics
              /\ store'.topics[i].timestamp_first = store.topics[i].timestamp_first
              /\ store'.topics[i].timestamp_last = store.topics[i].timestamp_last]_vars

\* C15: under nesting the row ids of a table come from a counter seeded
\* from the largest row id the table holds: every id handed out is greater
\* than the id of every row already in the table, and the ids handed out
\* for one table are distinct and consecutive.
C15_FreshIds ==
  (last.op = "emit" /\ _nesting # "") =>
    /\ \A i \in DOMAIN last.ids : last.ids[i].id > last.ids[i].held
    /\ \A i, j \in DOMAIN last.ids :
          (i < j /\ last.ids[i].table = last.ids[j].table
           /\ \A k \in (i + 1)..(j - 1) : last.ids[k].table # last.ids[i].table)
          => last.ids[j].id = last.ids[i].id + 1

\* C16: at the end of every emit every topic descriptor of the Topic Catalog
\* has a type descriptor for its own (type name, definition hash) in the Type
\* Catalog.
C16_TopicHasType ==
  (last.op = "emit") =>
    \A k \in DOMAIN _topics : <<_topics[k].type, _topics[k].md5>> \in DOMAIN _types

\* C17: within a session the column layout recorded for a type only grows:
\* an emit or a close of the session keeps every (type name, hash) that has
\* a layout and its columns, with their types, as the first columns of its
\* layout in the same order; so do the schema evolution and the emit that
\* follow the loading of the layouts when the store is opened.
IsPrefix(s, t) == Len(s) <= Len(t) /\ \A i \in 1..Len(s) : s[i] = t[i]

LayoutAtStart ==
  IF last'.init THEN _load_schema(Connected(Cur("init"))).schema ELSE _schema

C17_LayoutGrows ==
  [][(last'.op \in {"emit", "close"}) =>
       \A k \in DOMAIN LayoutAtStart :
         k \in DOMAIN _schema' /\ IsPrefix(LayoutAtStart[k], _schema'[k])]_vars

\* An emit of a session created the table of one type while another type
\* already had its layout.
C17_Witness ==
  /\ last.op = "emit" /\ ~last.init /\ last.exc = "none" /\ last.created # {}
  /\ \E k \in DOMAIN _schema :
        /\ _schema[k] # <<>>
        /\ k \in DOMAIN _types
        /\ _types[k].table_name \notin last.created

\* C18: in autocommit mode (commit interval 0) nothing is ever queued: the
\* queue is empty in every state, no handler queues a row, and a statement
\* is executed when it is issued: the connection holds no uncommitted
\* change, and when an emit raises nothing the row of its record is the
\* last of table messages.
C18_AutocommitNoQueue ==
  (option_interval = V(0)) =>
    /\ _sql_queue = <<>>
    /\ last.enq = 0
    /\ work = store
    /\ (last.op = "emit" /\ last.exc = "none") =>
          /\ store.messages # <<>>
          /\ store.messages[Len(store.messages)].topic = last.topic
          /\ store.messages[Len(store.messages)].type = last.type[1]
          /\ store.messages[Len(store.messages)].timestamp = last.stamp

\* The second record written in autocommit mode, with its row in a type table.
C18_Witness ==
  /\ option_interval = V(0) /\ COMMIT_INTERVAL = 0
  /\ last.op = "emit" /\ last.exc = "none" /\ last.inserts # <<>>
  /\ Len(store.messages) > 1

\* C19: for a record whose (type name, definition hash) is already in the
\* Type Catalog (as loaded, when the emit opens the store), processing the
\* type is a hit: no type row is inserted for it, its table is not created
\* again, and the descriptor's table name and column layout stay as they were.
TypesAtStart ==
  IF last'.init THEN _load_schema(Connected(Cur("init"))).types ELSE _types

C19_TypeHit ==
  [][(last'.op = "emit" /\ last'.type \in DOMAIN TypesAtStart) =>
       /\ last'.type \in DOMAIN _types'
       /\ _types'[last'.type].id = TypesAtStart[last'.type].id
       /\ _types'[last'.type].table_name = TypesAtStart[last'.type].table_name
       /\ TypesAtStart[last'.type].table_name \notin last'.created
       /\ last'.type \in DOMAIN LayoutAtStart =>
             /\ last'.type \in DOMAIN _schema'
             /\ _schema'[last'.type] = LayoutAtStart[last'.type]]_vars

\* C20: a view is created exactly when a (topic name, hash) is first added
\* to the Topic Catalog, and never for a topic already in the catalog, those
\* loaded when the store is opened included; the view selects from the table
\* recorded for the topic's type and keeps the rows whose _topic is the
\* topic's name.
TopicsAtStart ==
  IF last'.init THEN _load_schema(Connected(Cur("init"))).topics ELSE _topics

C20_ViewOnNewTopic ==
  [][(last'.op = "emit") =>
       IF <<last'.topic, last'.type[2]>> \in DOMAIN TopicsAtStart
       THEN last'.views = {}
       ELSE <<last'.topic, last'.type[2]>> \in DOMAIN _topics' =>
              /\ last'.views = {_topics'[<<last'.topic, last'.type[2]>>].view_name}
              /\ \A v \in last'.views :
                    /\ v \in DOMAIN store'.views
                    /\ store'.views[v].topic = last'.topic
                    /\ last'.type \in DOMAIN _types'
                    /\ store'.views[v].type = _types'[last'.type].table_name]_vars

\* C21 as stated: when nested types are synthesized the linkage columns
\* _parent_type and _parent_id are never in the layout of the table of the
\* parent, the type of the record itself.
HasLinkage(cols) ==
  Range(ColNames(MESSAGE_TYPE_NESTCOLS)) \subseteq Range(ColNames(cols))

C23_CloseEmptiesQueue ==
  (last.op = "close" /\ last.exc = "none") => (_sql_queue = <<>> /\ QueueTotal(_sql_queue) = 0)

\* close() returned on an open store that had rows queued by emits that
\* raised nothing.
C23_Witness ==
  /\ ClosedOpen /\ last.exc = "none" /\ last.before > 1
  /\ _topics # <<>> /\ _sql_queue = <<>>

C28_InsertBeforeUpdate == last.missed = 0

\* C29: for every topic descriptor the table name of the topic row is the
\* table name of the type descriptor of the same (type name, definition
\* hash), in whatever order topics and nested types are first seen.
C29_TopicTableIsTypeTable ==
  \A k \in DOMAIN _topics :
    <<_topics[k].type, _topics[k].md5>> \in DOMAIN _types
    => _topics[k].table_name = _types[<<_topics[k].type, _topics[k].md5>>].table_name

\* C30: every entry of the nested-table map of a type descriptor names the
\* table that the Type Catalog records for the child (type name, definition
\* hash) at that field path, also when the child was registered earlier and
\* the topics registered since changed what the naming rule returns.
RECURSIVE ChildKey(_, _)
ChildKey(typekey, path) ==
  LET fields == get_message_fields(typekey)
      f == fields[CHOOSE i \in DOMAIN fields : fields[i].name = Head(path)]
  IN IF Len(path) = 1 THEN f.sub ELSE ChildKey(f.sub, Tail(path))

C30_NestedMapNamesChildTable ==
  \A k \in DOMAIN _types :
    \A path \in DOMAIN _types[k].nested_tables.map :
      ChildKey(k, path) \in DOMAIN _types
      => _types[k].nested_tables.map[path] = _types[ChildKey(k, path)].table_name

\* C22: a nesting mode that is not recognized is rejected before any I/O:
\* validate() is false for it and run() exits without starting the search,
\* so the store is never opened by the sink and no emit is processed.
C22_InvalidNestingNoIO ==
  (_nesting \notin {"", "array", "all"}) =>
    /\ ~validate(_nesting)
    /\ _db = "None" /\ work = store
    /\ last.op \in {"init", "close"} /\ ~last.init
    /\ _topics = <<>> /\ _types = <<>> /\ _sql_queue = <<>>

\* A run with an unrecognized nesting mode on a store written before ended.
C22_Witness ==
  /\ _nesting = "both" /\ last.op = "close" /\ last.was_closed
  /\ store.topics # <<>>

\* C24: an McapBag is a reader or a writer, never both. read_messages and
\* write raise ValueError on a closed bag; on a bag that is not closed,
\* read_messages raises UnsupportedOperation in mode "w" and write does in
\* mode "r"; and a call that raises leaves the topic counts, the type maps
\* and the start and end times as they were.
BagMeta(B) == <<B.topics, B.types, B.typedefs, B.start_time, B.end_time>>

C25_StartEndOfWritten ==
  (bag.op = "write" /\ bag.exc = "none") =>
    /\ bag.start_time # NULL /\ bag.end_time # NULL
    /\ \A n \in Nsecs(bag.data) : bag.start_time[1].num <= n /\ n <= bag.end_time[1].num
    /\ {bag.start_time[1], bag.end_time[1]} \subseteq {Sec(n) : n \in Nsecs(bag.data)}
    /\ bag.start_time[1].num <= bag.end_time[1].num

\* C26: get_type_and_topic_info(topic_filters) raises ValueError on a closed
\* bag, and otherwise returns the message types and the topics of exactly
\* the topics picked by the filter of that call, all topics if there is none.
C26_InfoOfThisFilter ==
  (bag.op = "get_type_and_topic_info") =>
    IF bag.file = "None" THEN bag.exc = "ValueError"
    ELSE /\ bag.exc = "none" /\ bag.ret # NULL
         /\ DOMAIN bag.ret[1].topics = {k[1] : k \in Selected(bag, bag.arg)}
         /\ bag.ret[1].msgtypes = {<<k[2], k[3]>> : k \in Selected(bag, bag.arg)}

\* C31: under nesting, every child row that _populate_type inserts is of a
\* type that _process_type registered: once the record's own topic and type
\* are in the catalogs, _populate_type finds the type of every sub-record it
\* comes to (no KeyError), and each child row goes to a table of a row of
\* the Type Catalog, which exists.
C31_ChildTypesRegistered ==
  (/\ last.op = "emit" /\ _nesting # ""
   /\ last.type \in DOMAIN _types
   /\ <<last.topic, last.type[2]>> \in DOMAIN _topics) =>
    /\ last.exc # "KeyError"
    /\ \A i \in DOMAIN last.inserts :
         last.inserts[i].parent_type # NULL =>
           /\ \E k \in DOMAIN _types : _types[k].table_name = last.inserts[i].table
           /\ last.inserts[i].table \in DOMAIN work.tables

\* C32: the columns of a topic view do not depend on whether the table of
\* the topic's type was created in this session or loaded from the store:
\* the view an emit creates for a new topic, in a session opened on a store
\* that holds the type and its table, selects the user fields of the table
\* and the whitelisted _dt, _timestamp and _id, as the session that created
\* the table would.
C32_ViewColsOnReopen ==
  [][(/\ last'.op = "emit" /\ last'.init
      /\ last'.type \in DOMAIN TypesAtStart
      /\ TypesAtStart[last'.type].table_name \in DOMAIN store.tables
      /\ <<last'.topic, last'.type[2]>> \notin DOMAIN TopicsAtStart) =>
       \A v \in last'.views \cap DOMAIN work'.views :
          work'.views[v].cols = ViewCols(store.tables[TypesAtStart[last'.type].table_name].cols)]_vars

\* C33: close() is idempotent with respect to the store: a close() that
\* follows a close() with no emit in between executes no statement and does
\* not touch the connection.
C33_SecondCloseIdle ==
  [][(last.op = "close" /\ last'.op = "close") =>
       /\ _db = "None" /\ _db' = "None"
       /\ work' = work /\ store' = store /\ _sql_queue' = _sql_queue
       /\ last'.exc = "none"]_vars

\* C34: on every path by which run() ends after the source and the sink were
\* constructed, sink.close() was called at least once, and no call of
\* source.close() comes before the first call of sink.close().
C34_SinkClosedFirst ==
  (run.sink # "None") =>
    /\ (run.pc = "done") => (\E i \in DOMAIN run.calls : run.calls[i] = "sink")
    /\ \A i \in DOMAIN run.calls :
         run.calls[i] = "source" => \E j \in 1..(i - 1) : run.calls[j] = "sink"

\* run() ended after a search that wrote messages was interrupted: the
\* handler closed both, the finally block closed both again.
C34_Witness ==
  /\ run.pc = "done" /\ run.calls = <<"sink", "source", "sink", "source">>
  /\ nemits > 0

\* C35: once run() has constructed the source, source.close() is called on
\* every path by which run() ends.
C35_SourceClosed ==
  (run.pc = "done" /\ run.made) => (\E i \in DOMAIN run.calls : run.calls[i] = "source")

\* C36: when an McapBag opened for writing is closed, the writer is finished
\* while the file is still open, and the file is closed afterwards: close()
\* returns, and what it did is finish and then the closing of the file.
C36_FinishBeforeFileClose ==
  (bag.op = "close" /\ bag.mode = "w" /\ bag.did # <<>>) =>
    (bag.exc = "none" /\ bag.did = <<"finish", "file.close">>)

\* C37: open() after close(). In read mode the metainfo is as after the
\* first open: every topic count, and get_message_count(), is that of the
\* file. In write mode open() raises UnsupportedOperation and the bag stays
\* closed.
C37_ReopenKeepsMeta ==
  [][(bag.op = "close" /\ bag'.op = "open") =>
       IF bag.mode = "r"
       THEN /\ bag'.exc = "none"
            /\ \A k \in DOMAIN bag'.topics : bag'.topics[k] = Counted(bag'.data, k)
            /\ get_message_count(bag', {}) = Len(bag'.data)
            /\ \A t \in {"/a", "/b"} :
                 get_message_count(bag', {t})
                   = Cardinality({i \in DOMAIN bag'.data : bag'.data[i].topic = t})
       ELSE bag'.exc = "UnsupportedOperation" /\ bag'.file = "None"]_vars

====
